---- MODULE Spec2Model ----
(***************************************************************************)
(* A model of logjam's Logger (jam.go): the per-second heat state machine  *)
(* (updateHeat), the line writer (Output) with its colour transforms, the  *)
(* convenience entry points and the configuration setters.                 *)
(*                                                                         *)
(* Bytes are their integer codes, strings of the program that end up in    *)
(* the output are sequences of bytes.                                      *)
(***************************************************************************)
EXTENDS Integers, Sequences, FiniteSets, TLC

(***************************************************************************)
(* Bounds of the model.                                                    *)
(***************************************************************************)
\* the wall clock runs over the Unix seconds 1..MaxTime
MaxTime == 4
\* at most MaxRate lines are counted in one period (l.rate <= MaxRate)
MaxRate == 11
\* with concurrent callers (ConcSpec), at most MaxConcRate lines are counted
\* in one period
MaxConcRate == 3
\* and the wall clock runs over the seconds 1..MaxConcTime
MaxConcTime == 2

(***************************************************************************)
(* Constants of jam.go.                                                    *)
(***************************************************************************)
NL == 10
ESC == 27
\* "\033[0m", "\033[1;33m", "\033[1;31m", "\033[1;32m"
reset == <<27, 91, 48, 109>>
yellow == <<27, 91, 49, 59, 51, 51, 109>>
red == <<27, 91, 49, 59, 51, 49, 109>>
announcement == <<27, 91, 49, 59, 51, 50, 109>>

\* the three banners of updateHeat
HeatingUpBanner == "It's heating up!!! "
OnFireBanner == "It's on fire!!! "
BlazingBanner == "Boomshakalaka!!! "
Banners == {HeatingUpBanner, OnFireBanner, BlazingBanner}

\* []byte(a) for the strings the program stores in l.announce and in
\* l.prefix
StringBytes(a) ==
    CASE a = "" -> <<>>
      [] a = "pfx" -> <<112, 102, 120>>
      [] a = HeatingUpBanner ->
           <<73, 116, 39, 115, 32, 104, 101, 97, 116, 105, 110, 103, 32,
             117, 112, 33, 33, 33, 32>>
      [] a = OnFireBanner ->
           <<73, 116, 39, 115, 32, 111, 110, 32, 102, 105, 114, 101, 33,
             33, 33, 32>>
      [] a = BlazingBanner ->
           <<66, 111, 111, 109, 115, 104, 97, 107, 97, 108, 97, 107, 97,
             33, 33, 33, 32>>

\* the argument of os.Exit in Fatal, Fatalf, Fatalln
ExitCode == 1

\* New's defaults
DefaultHeatingUp == 10
DefaultOnFire == 20
DefaultBlazing == 5

(***************************************************************************)
(* Inputs.                                                                 *)
(***************************************************************************)
\* messages handed to Output: "", "ab", "a\n"
Msgs == {<<>>, <<97, 98>>, <<97, NL>>}
\* operands handed to Printf, Print and Println: "", "ab"
Operands == {<<>>, <<97, 98>>}
\* arguments of SetHeatingUp and SetOnFire, of SetBlazing
Rates == {0, 2}
Periods == {0}
\* destinations (io.Writer values) handed to New and SetOutput
Writers == {"w"}
Prefixes == {"pfx"}
\* prefixes handed to SetPrefix
NewPrefixes == {"", "pfx"}
\* the concurrent callers of Output (goroutines)
Procs == {"g1", "g2"}

(***************************************************************************)
(* The colour transforms.                                                  *)
(***************************************************************************)
blazing(txt) == red \o txt \o reset

heating(txt) == yellow \o txt \o reset

announce(a) == announcement \o StringBytes(a) \o reset

RECURSIVE fireFrom(_, _)
\* the loop of fire over txt[i..], i counted from 1 (Go index i-1)
fireFrom(txt, i) ==
    IF i > Len(txt) THEN <<>>
    ELSE (IF (i - 1) % 2 = 0 THEN red ELSE yellow) \o <<txt[i]>>
         \o fireFrom(txt, i + 1)

fire(txt) == fireFrom(txt, 1) \o reset

\* a call through the function value l.heat
Apply(heat, txt) ==
    CASE heat = "heating" -> heating(txt)
      [] heat = "fire" -> fire(txt)
      [] heat = "blazing" -> blazing(txt)

(***************************************************************************)
(* State.                                                                  *)
(***************************************************************************)
VARIABLES
    l,       \* the Logger: a record of the struct's fields
    mu,      \* l.mu: "unlocked", or the caller that holds it
    clock,   \* the wall clock, in Unix seconds (time.Now().Unix())
    writes,  \* the buffers the destination received in Write calls of the
             \* most recent Output call that reached its Write
    arg,     \* the string s of that Output call
    wfail,   \* whether the destination failed that call's (last) Write
    ret,     \* what the caller of the most recent entry point got back:
             \* "nil", "err", "void" (no result), "panic", "none" (no call)
    pc,      \* per concurrent caller: its position in Output
    now,     \* per concurrent caller: the second of its now := time.Now()
    s,       \* per concurrent caller: its argument s
    evals,   \* per second: how many Output calls of the concurrent callers
             \* that read this second from the clock ran the switch of
             \* updateHeat (counted up to 2)
    after,   \* per concurrent caller: what its entry point does once Output
             \* has returned: "idle" (it returns), "exit" (os.Exit(1)),
             \* "raise" (panic(s))
    halt,    \* how the process was stopped or what was raised last: kind
             \* "none", "exit" (with the exit code), "panic" (with the value)
    got,     \* what the most recent call of a getter returned (val), with
             \* the value most recently set when it returned (set)
    conf     \* the prefix and the destination most recently set by a
             \* completed SetPrefix and SetOutput, or else the constructor's

vars == <<l, mu, clock, writes, arg, wfail, ret, pc, now, s, evals,
          after, halt, got, conf>>
conc == <<mu, pc, now, s, evals>>
api == <<after, halt, got, conf>>

\* New(out, prefix)
New(out, prefix) ==
    [prefix |-> prefix, term |-> TRUE, out |-> out, buf |-> <<>>,
     state |-> "cold", period |-> 0, firePeriod |-> 0, rate |-> 0,
     rateHeatingUp |-> DefaultHeatingUp, rateOnFire |-> DefaultOnFire,
     periodsBlazing |-> DefaultBlazing, announce |-> "", heat |-> "nil"]

\* the zero value of the exported struct: var l logjam.Logger
ZeroLogger ==
    [prefix |-> "", term |-> FALSE, out |-> "nil", buf |-> <<>>,
     state |-> "cold", period |-> 0, firePeriod |-> 0, rate |-> 0,
     rateHeatingUp |-> 0, rateOnFire |-> 0,
     periodsBlazing |-> 0, announce |-> "", heat |-> "nil"]

Init ==
    /\ l \in {New(w, p) : w \in Writers, p \in Prefixes} \cup {ZeroLogger}
    /\ mu = "unlocked"
    /\ clock = 1
    /\ writes = <<>>
    /\ arg = <<>>
    /\ wfail = FALSE
    /\ ret = "none"
    /\ pc = [p \in Procs |-> "idle"]
    /\ now = [p \in Procs |-> 0]
    /\ s = [p \in Procs |-> <<>>]
    /\ evals = [t \in 1..MaxTime |-> 0]
    /\ after = [p \in Procs |-> "idle"]
    /\ halt = [kind |-> "none", code |-> 0, val |-> <<>>]
    /\ got = [kind |-> "none", val |-> "", set |-> ""]
    /\ conf = [prefix |-> l.prefix, out |-> l.out]

(***************************************************************************)
(* updateHeat                                                              *)
(***************************************************************************)
\* The cases of the switch of updateHeat, on the logger r whose rate is
\* already incremented and whose period is already the new one.
\* a variant of caseCold that heats up at rate = rateHeatingUp already
caseColdGe(r) ==
    IF r.rate >= r.rateHeatingUp
    THEN [r EXCEPT !.announce = HeatingUpBanner, !.state = "heatingUp",
                   !.heat = "heating"]
    ELSE [r EXCEPT !.heat = "nil"]

\* case cold
caseCold(r) ==
    IF r.rate > r.rateHeatingUp
    THEN [r EXCEPT !.announce = HeatingUpBanner, !.state = "heatingUp",
                   !.heat = "heating"]
    ELSE [r EXCEPT !.heat = "nil"]

\* a variant of caseCoolingDown that keeps the transform when it goes cold
caseCoolingDownKeepsHeat(r) ==
    IF r.rate > r.rateHeatingUp
    THEN [r EXCEPT !.heat = "heating", !.state = "heatingUp"]
    ELSE IF r.rate < r.rateHeatingUp
    THEN [r EXCEPT !.state = "cold"]
    ELSE r

\* case coolingDown
caseCoolingDown(r) ==
    IF r.rate > r.rateHeatingUp
    THEN [r EXCEPT !.heat = "heating", !.state = "heatingUp"]
    ELSE IF r.rate < r.rateHeatingUp
    THEN [r EXCEPT !.heat = "nil", !.state = "cold"]
    ELSE r

\* a variant of caseHeatingUp that cools down below rateHeatingUp
caseHeatingUpCools(r, period) ==
    IF r.rate > r.rateOnFire
    THEN [r EXCEPT !.announce = OnFireBanner, !.state = "onFire",
                   !.firePeriod = period, !.heat = "fire"]
    ELSE IF r.rate < r.rateHeatingUp
    THEN [r EXCEPT !.state = "coolingDown", !.heat = "heating"]
    ELSE [r EXCEPT !.heat = "heating"]

\* case heatingUp
caseHeatingUp(r, period) ==
    IF r.rate > r.rateOnFire
    THEN [r EXCEPT !.announce = OnFireBanner, !.state = "onFire",
                   !.firePeriod = period, !.heat = "fire"]
    ELSE [r EXCEPT !.heat = "heating"]

\* a variant of caseOnFire that cools straight down to cold
caseOnFireToCold(r, period) ==
    IF r.rate < r.rateOnFire
    THEN [r EXCEPT !.state = "cold", !.heat = "nil"]
    ELSE IF r.firePeriod + r.periodsBlazing < period
    THEN [r EXCEPT !.announce = BlazingBanner, !.heat = "blazing"]
    ELSE [r EXCEPT !.heat = "fire"]

\* case onFire; the break of its first branch leaves the switch
caseOnFire(r, period) ==
    IF r.rate < r.rateOnFire
    THEN [r EXCEPT !.state = "coolingDown", !.heat = "heating"]
    ELSE IF r.firePeriod + r.periodsBlazing < period
    THEN [r EXCEPT !.announce = BlazingBanner, !.heat = "blazing"]
    ELSE [r EXCEPT !.heat = "fire"]

\* switch l.state
heatSwitch(r, period) ==
    CASE r.state = "cold" -> caseCold(r)
      [] r.state = "coolingDown" -> caseCoolingDown(r)
      [] r.state = "heatingUp" -> caseHeatingUp(r, period)
      [] r.state = "onFire" -> caseOnFire(r, period)

\* a variant of updateHeat whose onFire case returns, instead of leaving
\* the switch, when it cools down
updateHeatReturnsEarly(r, period) ==
    LET r1 == [r EXCEPT !.rate = @ + 1] IN
    IF r1.period = period THEN r1
    ELSE LET r2 == heatSwitch([r1 EXCEPT !.period = period], period) IN
         IF r1.state = "onFire" /\ r2.state = "coolingDown" THEN r2
         ELSE [r2 EXCEPT !.rate = 0]

\* updateHeat(now), period the Unix second of now
updateHeat(r, period) ==
    LET r1 == [r EXCEPT !.rate = @ + 1] IN
    IF r1.period = period THEN r1
    ELSE [heatSwitch([r1 EXCEPT !.period = period], period) EXCEPT !.rate = 0]

(***************************************************************************)
(* Output                                                                  *)
(***************************************************************************)
\* a variant of resetBuf that clears the prefix with the buffer
resetBufClearsPrefix(r) == [r EXCEPT !.buf = <<>>, !.prefix = ""]

\* l.buf = l.buf[:0]
resetBuf(r) == [r EXCEPT !.buf = <<>>]

\* a variant of appendAnnounce that leaves the banner pending
appendAnnounceNoClear(r) ==
    IF r.announce # ""
    THEN [r EXCEPT !.buf = @ \o announce(r.announce)]
    ELSE r

\* the banner, if one is pending
appendAnnounce(r) ==
    IF r.announce # ""
    THEN [r EXCEPT !.buf = @ \o announce(r.announce), !.announce = ""]
    ELSE r

\* a variant of appendMessage that writes the prefix before the message
appendMessageWithPrefix(r, str) ==
    LET nl == Len(str) = 0 \/ str[Len(str)] # NL
        body == IF r.heat # "nil" /\ r.term THEN Apply(r.heat, str) ELSE str
    IN [r EXCEPT !.buf = @ \o StringBytes(r.prefix) \o body
                          \o (IF nl THEN <<NL>> ELSE <<>>)]

\* the message, transformed or not, and the newline
appendMessage(r, str) ==
    LET nl == Len(str) = 0 \/ str[Len(str)] # NL
        body == IF r.heat # "nil" /\ r.term THEN Apply(r.heat, str) ELSE str
    IN [r EXCEPT !.buf = @ \o body \o (IF nl THEN <<NL>> ELSE <<>>)]

\* the Write calls Output makes on the destination, given the outcome ok of
\* a Write: one call with the buffer; none on a nil destination, where the
\* method call panics
writeCalls(r, ok) == IF r.out = "nil" THEN <<>> ELSE <<r.buf>>

\* what Output hands back: err of the Write, or the panic of the nil call
outputResult(r, ok) ==
    IF r.out = "nil" THEN "panic" ELSE IF ok THEN "nil" ELSE "err"

\* a variant of Output that keeps the banner pending when the Write fails
OutputKeepBannerOnError(r, str, t, ok) ==
    LET u == updateHeat(resetBuf(r), t)
        r1 == appendMessage(appendAnnounce(u), str)
    IN [l |-> IF r1.out # "nil" /\ ~ok
              THEN [r1 EXCEPT !.announce = u.announce] ELSE r1,
        writes |-> writeCalls(r1, ok), ret |-> outputResult(r1, ok)]

\* Output(s) at time t, with the destination's Write succeeding iff ok:
\* the logger after the call, the Write calls made, and the result
Output(r, str, t, ok) ==
    LET r1 == appendMessage(appendAnnounce(updateHeat(resetBuf(r), t)), str)
    IN [l |-> r1, writes |-> writeCalls(r1, ok), ret |-> outputResult(r1, ok)]

\* what the callers of Printf, Print, Println get from a call of Output
\* with result res: nothing, unless it panicked
discard(res) == IF res = "panic" THEN "panic" ELSE "void"

\* fmt.Sprintln(v) for one string operand
Sprintln(v) == v \o <<NL>>
\* fmt.Sprint(v) for one string operand
Sprint(v) == v
\* fmt.Sprintf(format, v) for the formats "%s" and "%s\n"
Sprintf(format, v) == IF format = "%s\n" THEN v \o <<NL>> ELSE v

\* one whole call by a single caller: the effect of Output(str), with the
\* caller getting result(o.ret)
Emit(str, o, result) ==
    /\ l.rate < MaxRate
    /\ l' = o.l
    /\ writes' = o.writes
    /\ arg' = str
    /\ wfail' = (o.ret = "err")
    /\ ret' = result
    /\ UNCHANGED <<clock, conc, api>>

DoOutput ==
    \E str \in Msgs, ok \in BOOLEAN:
        LET o == Output(l, str, clock, ok) IN Emit(str, o, o.ret)

DoPrintf ==
    \E v \in Operands, format \in {"%s", "%s\n"}, ok \in BOOLEAN:
        LET str == Sprintf(format, v)
            o == Output(l, str, clock, ok)
        IN Emit(str, o, discard(o.ret))

DoPrint ==
    \E v \in Operands, ok \in BOOLEAN:
        LET o == Output(l, Sprint(v), clock, ok)
        IN Emit(Sprint(v), o, discard(o.ret))

DoPrintln ==
    \E v \in Operands, ok \in BOOLEAN:
        LET o == Output(l, Sprintln(v), clock, ok)
        IN Emit(Sprintln(v), o, discard(o.ret))

(***************************************************************************)
(* Setters                                                                 *)
(***************************************************************************)
SetOutput ==
    \E w \in Writers:
        /\ mu = "unlocked"
        /\ l' = [l EXCEPT !.out = w]
        /\ conf' = [conf EXCEPT !.out = w]
        /\ UNCHANGED <<clock, writes, arg, wfail, ret, conc, after, halt, got>>

SetHeatingUp ==
    \E hup \in Rates:
        /\ mu = "unlocked"
        /\ l' = [l EXCEPT !.rateHeatingUp = hup]
        /\ UNCHANGED <<clock, writes, arg, wfail, ret, conc, api>>

\* a variant of SetOnFire that starts a new count
SetOnFireResetsCount ==
    \E of \in Rates:
        /\ mu = "unlocked"
        /\ l' = [l EXCEPT !.rateOnFire = of, !.rate = 0]
        /\ UNCHANGED <<clock, writes, arg, wfail, ret, conc, api>>

SetOnFire ==
    \E of \in Rates:
        /\ mu = "unlocked"
        /\ l' = [l EXCEPT !.rateOnFire = of]
        /\ UNCHANGED <<clock, writes, arg, wfail, ret, conc, api>>

SetBlazing ==
    \E b \in Periods:
        /\ mu = "unlocked"
        /\ l' = [l EXCEPT !.periodsBlazing = b]
        /\ UNCHANGED <<clock, writes, arg, wfail, ret, conc, api>>

\* the wall clock moves on to the next second
Tick ==
    /\ clock < MaxTime
    /\ clock' = clock + 1
    /\ UNCHANGED <<l, writes, arg, wfail, ret, conc, api>>

(***************************************************************************)
(* Output, statement by statement, for concurrent callers.                 *)
(***************************************************************************)
\* a variant of canLock that does not wait for the mutex
canLockAlways(p) == TRUE

\* l.mu.Lock() returns once no caller holds the mutex
canLock(p) == mu = "unlocked"

\* line 173: now := time.Now(), before the lock is asked for
Call(p) ==
    /\ pc[p] = "idle"
    /\ l.rate + Cardinality({q \in Procs : pc[q] # "idle"}) < MaxConcRate
    /\ \E str \in Msgs: s' = [s EXCEPT ![p] = str]
    /\ now' = [now EXCEPT ![p] = clock]
    /\ pc' = [pc EXCEPT ![p] = "lock"]
    /\ UNCHANGED <<l, mu, clock, writes, arg, wfail, ret, evals, api>>

\* line 174
Lock(p) ==
    /\ pc[p] = "lock"
    /\ canLock(p)
    /\ mu' = p
    /\ pc' = [pc EXCEPT ![p] = "reset"]
    /\ UNCHANGED <<l, clock, writes, arg, wfail, ret, now, s, evals, api>>

\* line 176
Reset(p) ==
    /\ pc[p] = "reset"
    /\ l' = resetBuf(l)
    /\ pc' = [pc EXCEPT ![p] = "update"]
    /\ UNCHANGED <<mu, clock, writes, arg, wfail, ret, now, s, evals, api>>

\* lines 177-182
Update(p) ==
    /\ pc[p] = "update"
    /\ l' = appendAnnounce(updateHeat(l, now[p]))
    /\ evals' = IF l.period # now[p] /\ evals[now[p]] < 2
                THEN [evals EXCEPT ![now[p]] = @ + 1] ELSE evals
    /\ pc' = [pc EXCEPT ![p] = "format"]
    /\ UNCHANGED <<mu, clock, writes, arg, wfail, ret, now, s, api>>

\* lines 184-194
Format(p) ==
    /\ pc[p] = "format"
    /\ l' = appendMessage(l, s[p])
    /\ pc' = [pc EXCEPT ![p] = "write"]
    /\ UNCHANGED <<mu, clock, writes, arg, wfail, ret, now, s, evals, api>>

\* a variant of Write that returns with the mutex still locked
WriteKeepsLock(p) ==
    /\ pc[p] = "write"
    /\ \E ok \in BOOLEAN:
         /\ writes' = writeCalls(l, ok)
         /\ ret' = outputResult(l, ok)
         /\ wfail' = (outputResult(l, ok) = "err")
         /\ pc' = [pc EXCEPT ![p] = IF outputResult(l, ok) = "panic"
                                    THEN "idle" ELSE after[p]]
    /\ arg' = s[p]
    /\ now' = [now EXCEPT ![p] = 0]
    /\ s' = IF pc'[p] = "raise" THEN s ELSE [s EXCEPT ![p] = <<>>]
    /\ after' = [after EXCEPT ![p] = "idle"]
    /\ UNCHANGED <<l, mu, clock, evals, halt, got, conf>>

\* lines 195-197, and the deferred l.mu.Unlock() of line 175; control goes
\* back to the entry point that called Output, unless the call panicked
Write(p) ==
    /\ pc[p] = "write"
    /\ \E ok \in BOOLEAN:
         /\ writes' = writeCalls(l, ok)
         /\ ret' = outputResult(l, ok)
         /\ wfail' = (outputResult(l, ok) = "err")
         /\ pc' = [pc EXCEPT ![p] = IF outputResult(l, ok) = "panic"
                                    THEN "idle" ELSE after[p]]
    /\ arg' = s[p]
    /\ mu' = "unlocked"
    /\ now' = [now EXCEPT ![p] = 0]
    /\ s' = IF pc'[p] = "raise" THEN s ELSE [s EXCEPT ![p] = <<>>]
    /\ after' = [after EXCEPT ![p] = "idle"]
    /\ UNCHANGED <<l, clock, evals, halt, got, conf>>

\* the wall clock moves on while callers are in Output
ConcTick ==
    /\ clock < MaxConcTime
    /\ clock' = clock + 1
    /\ UNCHANGED <<l, writes, arg, wfail, ret, conc, api>>

(***************************************************************************)
(* The prefix and the getters.                                             *)
(***************************************************************************)
SetPrefix ==
    \E prefix \in NewPrefixes:
        /\ mu = "unlocked"
        /\ l' = [l EXCEPT !.prefix = prefix]
        /\ conf' = [conf EXCEPT !.prefix = prefix]
        /\ UNCHANGED <<clock, writes, arg, wfail, ret, conc, after, halt, got>>

Prefix ==
    /\ mu = "unlocked"
    /\ got' = [kind |-> "prefix", val |-> l.prefix, set |-> conf.prefix]
    /\ UNCHANGED <<l, clock, writes, arg, wfail, ret, conc, after, halt, conf>>

Writer ==
    /\ mu = "unlocked"
    /\ got' = [kind |-> "writer", val |-> l.out, set |-> conf.out]
    /\ UNCHANGED <<l, clock, writes, arg, wfail, ret, conc, after, halt, conf>>

(***************************************************************************)
(* Fatal, Fatalf, Fatalln, Panic, Panicf, Panicln, statement by statement. *)
(***************************************************************************)
\* the entry point of caller p calls Output(str), and does then (exit or
\* raise) once the call has returned; the first statement of Output is
\* line 173
callOutput(p, str, then) ==
    /\ pc[p] = "idle"
    /\ l.rate + Cardinality({q \in Procs : pc[q] # "idle"}) < MaxConcRate
    /\ s' = [s EXCEPT ![p] = str]
    /\ now' = [now EXCEPT ![p] = clock]
    /\ pc' = [pc EXCEPT ![p] = "lock"]
    /\ after' = [after EXCEPT ![p] = then]
    /\ UNCHANGED <<l, mu, clock, writes, arg, wfail, ret, evals, halt, got,
                   conf>>

Fatal(p) == \E v \in Operands: callOutput(p, Sprint(v), "exit")

Fatalf(p) ==
    \E v \in Operands, format \in {"%s", "%s\n"}:
        callOutput(p, Sprintf(format, v), "exit")

Fatalln(p) == \E v \in Operands: callOutput(p, Sprintln(v), "exit")

Panic(p) == \E v \in Operands: callOutput(p, Sprint(v), "raise")

Panicf(p) ==
    \E v \in Operands, format \in {"%s", "%s\n"}:
        callOutput(p, Sprintf(format, v), "raise")

Panicln(p) == \E v \in Operands: callOutput(p, Sprintln(v), "raise")

\* os.Exit(1): the process is gone, no caller takes another step
Exit(p) ==
    /\ pc[p] = "exit"
    /\ halt' = [kind |-> "exit", code |-> ExitCode, val |-> <<>>]
    /\ pc' = [pc EXCEPT ![p] = "exited"]
    /\ UNCHANGED <<l, mu, clock, writes, arg, wfail, ret, now, s, evals, after,
                   got, conf>>

\* panic(s): the caller of the entry point gets s raised
Raise(p) ==
    /\ pc[p] = "raise"
    /\ halt' = [kind |-> "panic", code |-> 0, val |-> s[p]]
    /\ ret' = "panic"
    /\ pc' = [pc EXCEPT ![p] = "idle"]
    /\ s' = [s EXCEPT ![p] = <<>>]
    /\ UNCHANGED <<l, mu, clock, writes, arg, wfail, now, evals, after, got,
                   conf>>

\* the process has not called os.Exit
running == halt.kind # "exit"

Next ==
    \/ DoOutput
    \/ DoPrintf
    \/ DoPrint
    \/ DoPrintln
    \/ SetOutput
    \/ SetHeatingUp
    \/ SetOnFire
    \/ SetBlazing
    \/ Tick

Spec == Init /\ [][Next]_vars

\* the callers in Output at once, with setters and the clock
ConcNext ==
    \/ \E p \in Procs: Call(p)
    \/ \E p \in Procs: Lock(p)
    \/ \E p \in Procs: Reset(p)
    \/ \E p \in Procs: Update(p)
    \/ \E p \in Procs: Format(p)
    \/ \E p \in Procs: Write(p)
    \/ SetOutput
    \/ SetHeatingUp
    \/ ConcTick

ConcSpec == Init /\ [][ConcNext]_vars

\* the callers in Output within one second, with the prefix and the
\* destination set and read, and the first threshold set
ConfNext ==
    \/ \E p \in Procs: Call(p)
    \/ \E p \in Procs: Lock(p)
    \/ \E p \in Procs: Reset(p)
    \/ \E p \in Procs: Update(p)
    \/ \E p \in Procs: Format(p)
    \/ \E p \in Procs: Write(p)
    \/ SetOutput
    \/ SetPrefix
    \/ Prefix
    \/ Writer
    \/ SetHeatingUp

ConfSpec == Init /\ [][ConfNext]_vars

\* the callers in Fatal, Fatalf, Fatalln, Panic, Panicf, Panicln, within
\* one second, until one of them ends the process
FatalNext ==
    \/ \E p \in Procs: running /\ Fatal(p)
    \/ \E p \in Procs: running /\ Fatalf(p)
    \/ \E p \in Procs: running /\ Fatalln(p)
    \/ \E p \in Procs: running /\ Panic(p)
    \/ \E p \in Procs: running /\ Panicf(p)
    \/ \E p \in Procs: running /\ Panicln(p)
    \/ \E p \in Procs: running /\ Lock(p)
    \/ \E p \in Procs: running /\ Reset(p)
    \/ \E p \in Procs: running /\ Update(p)
    \/ \E p \in Procs: running /\ Format(p)
    \/ \E p \in Procs: running /\ Write(p)
    \/ \E p \in Procs: running /\ Exit(p)
    \/ \E p \in Procs: running /\ Raise(p)

FatalSpec == Init /\ [][FatalNext]_vars

(***************************************************************************)
(* Properties.                                                             *)
(***************************************************************************)
\* a step of Spec that is a whole call of Output (directly or through
\* Printf, Print, Println): every call changes the count or the period
IsOutputStep == l'.rate # l.rate \/ l'.period # l.period

\* such a step in which the call ran the switch of updateHeat
IsEvaluation == l'.period # l.period

IsPrefix(pre, w) == Len(pre) <= Len(w) /\ SubSeq(w, 1, Len(pre)) = pre

\* the bytes w start with the banner b in its announcement colour
HasBanner(w, b) == IsPrefix(announce(b), w)

\* the destination received, in the most recent call, a buffer with banner b
Carries(ws, b) == ws # <<>> /\ HasBanner(ws[1], b)

\* the transition table of the heat states, as a function of the state, the
\* rate compared and the two thresholds
TableNext(state, rate, hup, of) ==
    CASE state = "cold" -> IF rate > hup THEN "heatingUp" ELSE "cold"
      [] state = "coolingDown" ->
           IF rate > hup THEN "heatingUp"
           ELSE IF rate < hup THEN "cold" ELSE "coolingDown"
      [] state = "heatingUp" -> IF rate > of THEN "onFire" ELSE "heatingUp"
      [] state = "onFire" -> IF rate < of THEN "coolingDown" ELSE "onFire"

\* C1: every evaluation of updateHeat at a new second moves the heat state
\* exactly as the transition table says, for the rate it compares (the count
\* with the current line) and the thresholds at that time; and the line that
\* takes Cold to HeatingUp carries the "It's heating up!!! " banner.
C1_TransitionTable ==
    [][IsEvaluation =>
        /\ l'.state = TableNext(l.state, l.rate + 1, l.rateHeatingUp,
                                l.rateOnFire)
        /\ (l.state = "cold" /\ l'.state = "heatingUp"
              => HasBanner(l'.buf, HeatingUpBanner))]_vars

\* C1 witness: with New's heatingUpRate of 10, the first line of second 2
\* found more than 10 lines counted and left the logger in HeatingUp, its
\* banner written with that line.
C1_Witness ==
    /\ l.state = "heatingUp" /\ l.rateHeatingUp = DefaultHeatingUp
    /\ l.period = 2 /\ l.rate = 0
    /\ Carries(writes, HeatingUpBanner)

\* C2: once the "Boomshakalaka!!! " banner has been written during a stay in
\* OnFire, a later per-second evaluation that stays in OnFire does not put
\* it into the output again (stated for a logger made by New and calls of
\* Output whose Write succeeds).
C2_BlazingBannerOnce ==
    [][(IsEvaluation /\ l.state = "onFire" /\ l'.state = "onFire"
          /\ l.term /\ ret = "nil" /\ Carries(writes, BlazingBanner) /\ ret' = "nil")
        => ~Carries(writes', BlazingBanner)]_vars

\* C3: a step that starts in OnFire ends in OnFire or CoolingDown, and an
\* evaluation with the rate below onFireRate ends in CoolingDown, whatever
\* the thresholds are.
C3_OnFireToCoolingDown ==
    [][l.state = "onFire" =>
        /\ l'.state \in {"onFire", "coolingDown"}
        /\ (IsEvaluation /\ l.rate + 1 < l.rateOnFire
              => l'.state = "coolingDown")]_vars

\* C3 witness: the logger cooled down from OnFire (the only way into
\* CoolingDown) with onFireRate <= heatingUpRate.
C3_Witness ==
    /\ l.state = "coolingDown" /\ l.rate = 0
    /\ l.rateOnFire <= l.rateHeatingUp

\* the buffer one call of Output assembles from message str: an optional
\* banner b, the message under transform h when the terminal mode is on,
\* and the newline the message lacks
Assembled(b, h, term, str) ==
    (IF b = "" THEN <<>> ELSE announce(b))
    \o (IF h # "nil" /\ term THEN Apply(h, str) ELSE str)
    \o (IF Len(str) = 0 \/ str[Len(str)] # NL THEN <<NL>> ELSE <<>>)

Heats == {"nil", "heating", "fire", "blazing"}

\* the positions of Output between the reset of l.buf and the Write
InBuffer == {"update", "format", "write"}

\* C4: with concurrent callers, every buffer the destination receives is
\* the buffer one call assembled (optional banner, that call's message, its
\* newline), and no other caller's step changes l.buf while a call is
\* between its reset of the buffer and its Write.
C4_WritesAreWholeBuffers ==
    /\ [](writes # <<>> =>
            \E b \in Banners \cup {""}, h \in Heats:
                writes[1] = Assembled(b, h, l.term, arg))
    /\ [][\A p \in Procs:
            pc[p] \in InBuffer /\ pc'[p] = pc[p] => l'.buf = l.buf]_vars

\* C4 witness: a call with a banner in its buffer is about to Write while
\* the other caller, with another message, waits for the lock.
C4_Witness ==
    \E p, q \in Procs:
        /\ pc[p] = "write" /\ pc[q] = "lock" /\ s[p] # s[q]
        /\ HasBanner(l.buf, HeatingUpBanner) /\ l.term

\* C5: no second has the switch of updateHeat run for it more than once.
C5_OneEvaluationPerSecond == \A t \in 1..MaxTime: evals[t] <= 1

\* C6: the bytes Output writes end in exactly one newline (stated for the
\* calls whose Write succeeds).
C6_EndsInOneNewline ==
    (writes # <<>> /\ ~wfail) =>
        LET w == writes[1] IN
        /\ w[Len(w)] = NL
        /\ (Len(w) >= 2 => w[Len(w) - 1] # NL)

C8_BannerNotRepeated ==
    [][(IsOutputStep /\ l'.state = l.state /\ l.term /\ ~wfail /\ ~wfail')
        => \A b \in Banners: ~(Carries(writes, b) /\ Carries(writes', b))]_vars

\* the heat state of the logger: state, transform, counters, banner
HeatFields(r) ==
    <<r.state, r.heat, r.rate, r.period, r.firePeriod, r.announce>>

\* C9 as stated: a call of Output whose Write fails returns the error after
\* one Write, and leaves the heat fields as they were before the call.
C9_FailedWriteLeavesHeat ==
    [][(IsOutputStep /\ wfail' /\ ret' # "void") =>
        /\ ret' = "err"
        /\ Len(writes') = 1
        /\ HeatFields(l') = HeatFields(l)]_vars

\* C9 amended: a call of Output whose Write fails returns the error after
\* one Write, and the failure has no influence on the heat fields: they are
\* what the same call leaves when its Write succeeds (the line is counted,
\* the table evaluated at a new second, the banner consumed).
C9_FailedWriteSameHeat ==
    [][(IsOutputStep /\ wfail' /\ ret' # "void") =>
        /\ ret' = "err"
        /\ Len(writes') = 1
        /\ HeatFields(l') = HeatFields(Output(l, arg', clock, TRUE).l)
        /\ l'.announce = ""
        /\ l'.rate = IF l.period = clock THEN l.rate + 1 ELSE 0]_vars

\* C9 witness: the Write of the line that took the logger to HeatingUp
\* failed, and Output returned the error.
C9_Witness ==
    /\ wfail /\ ret = "err" /\ Len(writes) = 1
    /\ l.state = "heatingUp" /\ l.rate = 0
    /\ HasBanner(writes[1], HeatingUpBanner)

\* C10: whenever the Write of a call fails, the caller of the entry point
\* gets the failure.
C10_EveryEntryPointReports == wfail => ret = "err"

\* the bodies a message of two bytes can have in the output: under one
\* colour, and under two colours alternating byte by byte
Colours == {red, yellow}
SolidBodies(str) == {c \o str \o reset : c \in Colours}
AlternatingBodies(str) ==
    {c[1] \o <<str[1]>> \o c[2] \o <<str[2]>> \o reset :
        c \in {d \in Colours \X Colours : d[1] # d[2]}}

\* the bytes w are an optional banner, a body out of bodies and a newline
IsLineOf(w, bodies) ==
    \E b \in Banners \cup {""}, body \in bodies:
        w = (IF b = "" THEN <<>> ELSE announce(b)) \o body \o <<NL>>

\* C11: a line written in OnFire (terminal mode on) has its message under
\* one solid colour while the logger is not blazing, and under two colours
\* alternating byte by byte once it is blazing.
C11_OnFireTransforms ==
    (l.state = "onFire" /\ l.term /\ writes # <<>> /\ ~wfail
       /\ arg = <<97, 98>>)
    => IF l.heat = "blazing"
       THEN IsLineOf(writes[1], AlternatingBodies(arg))
       ELSE IsLineOf(writes[1], SolidBodies(arg))

\* the three thresholds of a logger
ThresholdsOf(r) == <<r.rateHeatingUp, r.rateOnFire, r.periodsBlazing>>

\* C12: a step that changes a threshold (SetHeatingUp, SetOnFire,
\* SetBlazing) changes one threshold and nothing else, neither of the
\* logger nor of what has been written, and a call of Output in the same
\* second writes the same bytes after it as before it.
C12_SettersFrame ==
    [][ThresholdsOf(l') # ThresholdsOf(l) =>
        /\ Cardinality({i \in 1..3 :
                          ThresholdsOf(l')[i] # ThresholdsOf(l)[i]}) = 1
        /\ l' = [l EXCEPT !.rateHeatingUp = l'.rateHeatingUp,
                          !.rateOnFire = l'.rateOnFire,
                          !.periodsBlazing = l'.periodsBlazing]
        /\ writes' = writes /\ arg' = arg /\ ret' = ret /\ clock' = clock
        /\ (l.period = clock =>
              \A str \in Msgs:
                  Output(l', str, clock, TRUE).writes
                      = Output(l, str, clock, TRUE).writes)]_vars

\* C12 witness: heatingUpRate was raised to 2 on a logger made by New that
\* heated up in second 1 (under the threshold 0) and stays in HeatingUp.
C12_Witness ==
    /\ l.term /\ l.state = "heatingUp" /\ l.period = 1
    /\ l.rateHeatingUp = 2 /\ l.rate = 1

\* C15: a call in the second of l.period adds one to the count and leaves
\* state, transform, banner, period and firePeriod alone; a call in another
\* second leaves l.period at its second and the count at 0.
C15_CountAndPeriod ==
    [][IsOutputStep =>
        IF l.period = clock
        THEN /\ l'.rate = l.rate + 1
             /\ l'.state = l.state /\ l'.heat = l.heat
             /\ l'.announce = l.announce /\ l'.period = l.period
             /\ l'.firePeriod = l.firePeriod
             /\ \A b \in Banners: ~HasBanner(l'.buf, b)
        ELSE l'.period = clock /\ l'.rate = 0]_vars

\* C15 witness: the first call of a second took the logger from OnFire to
\* CoolingDown (the branch that leaves the switch early) with the count 0.
C15_Witness ==
    /\ l.state = "coolingDown" /\ l.heat = "heating" /\ l.period = clock
    /\ l.rate = 0 /\ ret = "nil"

\* C16: an evaluation in a second that follows a second without lines
\* (l.period is older than the previous second) compares a rate without the
\* lines counted before: the state moves as the table says for no line, or
\* for the current line alone.
C16_RateOfPreviousSecond ==
    [][(IsEvaluation /\ 0 < l.period /\ l.period < clock - 1) =>
        l'.state \in {TableNext(l.state, 0, l.rateHeatingUp, l.rateOnFire),
                      TableNext(l.state, 1, l.rateHeatingUp, l.rateOnFire)}]_vars

\* C18: the transform follows the heat state: none in Cold, heating in
\* CoolingDown and HeatingUp, fire or blazing in OnFire.
C18_HeatFollowsState ==
    CASE l.state = "cold" -> l.heat = "nil"
      [] l.state \in {"coolingDown", "heatingUp"} -> l.heat = "heating"
      [] l.state = "onFire" -> l.heat \in {"fire", "blazing"}

\* C18 witness: a logger that has been on fire is cold again, without a
\* transform.
C18_Witness == l.state = "cold" /\ l.firePeriod > 0 /\ l.heat = "nil"

\* C19: a step that starts in HeatingUp ends in HeatingUp, with the heating
\* transform, or in OnFire, and in OnFire only by an evaluation with a rate
\* above onFireRate.
C19_HeatingUpNeverCools ==
    [][l.state = "heatingUp" =>
        /\ l'.state \in {"heatingUp", "onFire"}
        /\ (l'.state = "heatingUp" => l'.heat = "heating")
        /\ (l'.state = "onFire"
              => IsEvaluation /\ l.rate + 1 > l.rateOnFire)]_vars

\* C19 witness: a logger that was never on fire, so never in CoolingDown,
\* has just been evaluated in HeatingUp (its line has no banner) and is
\* still in HeatingUp.
C19_Witness ==
    /\ l.state = "heatingUp" /\ l.firePeriod = 0 /\ l.rate = 0
    /\ l.rateHeatingUp = 2 /\ l.period = clock /\ clock > 1
    /\ ret = "nil" /\ ~HasBanner(writes[1], HeatingUpBanner)

C13_GetReturnsLastSet ==
    /\ l.prefix = conf.prefix
    /\ l.out = conf.out
    /\ got.kind # "none" => got.val = got.set

\* C13 witness: on a logger made by New with prefix "pfx", SetPrefix("") has
\* completed, Prefix() has returned "", and a caller of Output is about to
\* write.
C13_Witness ==
    /\ l.term /\ got.kind = "prefix" /\ got.val = ""
    /\ \E p \in Procs: pc[p] = "write"

\* caller p's call of Output from Fatal, Fatalf, Fatalln, Panic, Panicf or
\* Panicln ends in this step
EndsEmit(p) == pc[p] = "write" /\ pc'[p] # "write" /\ after[p] # "idle"

\* what C14 says of the steps of caller p: its one call of Output makes one
\* Write attempt with the formatted message and, failed or not, goes on to
\* os.Exit or panic; os.Exit gets 1, panic gets the formatted message, and
\* p does not hold the mutex then.
EmitThenStop(p) ==
    /\ EndsEmit(p) =>
          Len(writes') = 1 /\ arg' = s[p] /\ pc'[p] = after[p]
    /\ (pc[p] = "exit" /\ pc'[p] # "exit") =>
          halt'.kind = "exit" /\ halt'.code = 1 /\ mu # p
    /\ (pc[p] = "raise" /\ pc'[p] # "raise") =>
          halt'.kind = "panic" /\ halt'.val = s[p] /\ mu # p

\* C14: every call of Fatal, Fatalf, Fatalln makes one emit attempt and then
\* ends the process with exit code 1, every call of Panic, Panicf, Panicln
\* makes one emit attempt and then raises the formatted message, whether
\* the write succeeded or failed, and without the mutex held.
C14_EmitThenStop == [][\A p \in Procs: EmitThenStop(p)]_vars

\* C14, on a logger whose destination is not nil.
C14_EmitThenStopWithDestination ==
    [][l.out # "nil" => \A p \in Procs: EmitThenStop(p)]_vars

\* C14 witness: one call of Fatal, Fatalf or Fatalln has been made, its
\* Write failed, and the process has exited.
C14_Witness ==
    /\ halt.kind = "exit" /\ halt.code = ExitCode
    /\ wfail /\ Len(writes) = 1 /\ l.rate = 0 /\ mu = "unlocked"
    /\ \E p \in Procs: pc[p] = "exited" /\ \A q \in Procs \ {p}: pc[q] = "idle"

====
